---- MODULE Spec2Model ----
(***************************************************************************)
(* Request lifecycle of the Smart Parking backend (src/server.js): the     *)
(* handlers POST /api/requests, GET /api/requests and PATCH                *)
(* /api/requests/:id over the `requests` table.  Every handler builds one  *)
(* SQL statement synchronously, awaits it, and formats the reply; the      *)
(* statement is the only interaction with shared state, so a handler is    *)
(* two steps: receive (build the statement) and execute (the store runs it *)
(* atomically and the continuation replies).                               *)
(***************************************************************************)
EXTENDS Integers, Sequences, FiniteSets, TLC

VARIABLES
  requests,  \* the rows of table `requests`, in insertion order
  clock,     \* what Date.now() returns
  pc,        \* per handler: "idle", or "query" while its statement is awaited
  req,       \* per handler: the request it handles, or handled last
  stmt,      \* per handler: the statement it awaits
  res,       \* per handler: its reply to req, once sent
  before,    \* history: the rows a PATCH addressed when it was received
  since      \* history: INSERTs and UPDATEs run since a PATCH was received

vars == <<requests, clock, pc, req, stmt, res, before, since>>

(* ------------------------------ bounds --------------------------------- *)
MaxClock == 2      \* the clock stops here
MaxRows == 2       \* no create is received once this many rows are stored or awaited
MaxPatchKeys == 2  \* keys of a PATCH body in SpecUpdate
MaxSince == 3      \* the history counter `since` stops here

(* --------------------------- values ------------------------------------ *)
Handlers == {"h1", "h2"}

NULL == "NULL"
Undefined == "undefined"

InsertColumns ==
  {"id", "user_id", "user_name", "user_phone", "vehicle", "location", "status", "timestamp"}

UpdateOnlyColumns ==
  {"valet_id", "valet_name", "parked_timestamp", "exit_timestamp", "spot_id"}

Columns == InsertColumns \cup UpdateOnlyColumns

(* JSON text of the empty object literal {} *)
EmptyObject == "{}"

EmptyBody == [k \in {} |-> ""]

(* new Date().toISOString(): the text of an instant; TIMESTAMPTZ orders    *)
(* such texts by the instant they denote.                                  *)
toISOString(n) == "T" \o ToString(n)

TimestampValue(s) == CHOOSE n \in 0..(MaxClock + 1) : toISOString(n) = s

(* ---------------- BIGINT text and parseInt ----------------------------- *)
DigitChars == <<"0", "1", "2", "3", "4", "5", "6", "7", "8", "9">>

RECURSIVE NatText(_)
NatText(n) ==
  IF n < 10 THEN <<DigitChars[n + 1]>>
  ELSE NatText(n \div 10) \o <<DigitChars[(n % 10) + 1]>>

(* node-postgres hands a BIGINT column back as its decimal text *)
BigintText(n) == IF n < 0 THEN <<"-">> \o NatText(0 - n) ELSE NatText(n)

DigitValue(c) == CHOOSE d \in 0..9 : DigitChars[d + 1] = c

IsDigit(c) == \E d \in 0..9 : DigitChars[d + 1] = c

RECURSIVE ParseDigits(_, _)
ParseDigits(s, acc) ==
  IF s = <<>> \/ ~IsDigit(Head(s)) THEN acc
  ELSE ParseDigits(Tail(s), acc * 10 + DigitValue(Head(s)))

parseInt(s) ==
  IF s # <<>> /\ Head(s) = "-" THEN 0 - ParseDigits(Tail(s), 0)
  ELSE ParseDigits(s, 0)

(* --------------------------- requests ---------------------------------- *)
NoRequest == [method |-> "NONE", id |-> 0, body |-> EmptyBody]

NoStatement == [kind |-> "NONE", id |-> 0, cols |-> EmptyBody]

NoResponse == [status |-> 0, error |-> "", rows |-> <<>>]

(* `x || d` of JavaScript on a property of the parsed JSON body: an absent *)
(* property, the number 0 and the empty string are falsy.                  *)
Falsy(body, key) ==
  \/ key \notin DOMAIN body
  \/ IF key = "id" THEN body[key] = 0 ELSE body[key] = ""

(* variant: `x ?? d`, which replaces only an absent property *)
OrDefaultWhenAbsent(body, key, default) ==
  IF key \in DOMAIN body THEN body[key] ELSE default

OrDefault(body, key, default) == IF Falsy(body, key) THEN default ELSE body[key]

(* ------------------- POST /api/requests: values ------------------------ *)
RequestId(body, now) == OrDefault(body, "id", now)

InsertValues(body, now) ==
  [id         |-> RequestId(body, now),
   user_id    |-> OrDefault(body, "userId", "999"),
   user_name  |-> OrDefault(body, "userName", "Unknown"),
   user_phone |-> OrDefault(body, "userPhone", ""),
   vehicle    |-> OrDefault(body, "vehicle", EmptyObject),
   location   |-> OrDefault(body, "location", ""),
   status     |-> OrDefault(body, "status", "requested"),
   timestamp  |-> OrDefault(body, "timestamp", toISOString(now))]

(* ------------------- PATCH /api/requests/:id: SET clauses -------------- *)
(* variant: a map that also lets a PATCH write user_id *)
fieldMapWithUserId ==
  [status          |-> "status",
   valetId         |-> "valet_id",
   valetName       |-> "valet_name",
   parkedTimestamp |-> "parked_timestamp",
   exitTimestamp   |-> "exit_timestamp",
   spotId          |-> "spot_id",
   userId          |-> "user_id"]

fieldMapOwn ==
  [status          |-> "status",
   valetId         |-> "valet_id",
   valetName       |-> "valet_name",
   parkedTimestamp |-> "parked_timestamp",
   exitTimestamp   |-> "exit_timestamp",
   spotId          |-> "spot_id"]

(* fieldMap is an object literal, so a lookup of a key it does not own     *)
(* falls through to Object.prototype.                                      *)
ObjectPrototypeKeys ==
  {"constructor", "toString", "toLocaleString", "valueOf", "hasOwnProperty",
   "isPrototypeOf", "propertyIsEnumerable", "__proto__"}

InheritedText(key) ==
  IF key = "__proto__" THEN "[object Object]"
  ELSE "function " \o key \o "() { [native code] }"

fieldMap(key) ==
  IF key \in DOMAIN fieldMapOwn THEN fieldMapOwn[key]
  ELSE IF key \in ObjectPrototypeKeys THEN InheritedText(key)
  ELSE Undefined

(* the loop over Object.entries(updates): one clause `target = $n` per key *)
(* whose fieldMap lookup is truthy                                         *)
SetKeys(updates) == {key \in DOMAIN updates : fieldMap(key) # Undefined}

SetClauses(updates) ==
  [target \in {fieldMap(key) : key \in SetKeys(updates)} |->
     updates[CHOOSE key \in SetKeys(updates) : fieldMap(key) = target]]

(* ------------------------------ store ---------------------------------- *)
RowIds(table) == {table[i].id : i \in 1..Len(table)}

(* INSERT INTO requests (8 columns) ... RETURNING *: the primary key on id *)
(* rejects a duplicate; the five other columns are NULL.                   *)
(* variant: a table without the primary key *)
InsertNeverRejected(table, values) == FALSE

InsertRejected(table, values) == values.id \in RowIds(table)

NewRow(values) ==
  [c \in Columns |-> IF c \in InsertColumns THEN values[c] ELSE NULL]

InsertRow(table, values) == Append(table, NewRow(values))

(* UPDATE requests SET <clauses> WHERE id = $n RETURNING *                 *)
UpdateRejected(set) == \E target \in DOMAIN set : target \notin Columns

(* variant: an update that rewrites the whole row, clearing what the body *)
(* does not name                                                          *)
ReplacedRow(row, set) ==
  [c \in Columns |->
     IF c \in DOMAIN set THEN set[c]
     ELSE IF c \in UpdateOnlyColumns THEN NULL ELSE row[c]]

UpdatedRow(row, set) ==
  [c \in Columns |-> IF c \in DOMAIN set THEN set[c] ELSE row[c]]

(* variant: an UPDATE without its WHERE *)
RowMatchesEvery(row, id) == TRUE

(* variant: an UPDATE guarded by the request's status *)
RowMatchesRequested(row, id) == row.id = id /\ row.status = "requested"

(* WHERE id = $n *)
RowMatches(row, id) == row.id = id

Matching(table, id) == {i \in 1..Len(table) : RowMatches(table[i], id)}

UpdateRows(table, id, set) ==
  [i \in 1..Len(table) |->
     IF i \in Matching(table, id) THEN UpdatedRow(table[i], set) ELSE table[i]]

(* RETURNING *: the rows the statement updated, as updated *)
Returning(table, id, set) ==
  LET hit == Matching(table, id)
  IN  [n \in 1..Cardinality(hit) |->
         UpdatedRow(table[CHOOSE j \in hit : Cardinality({k \in hit : k < j}) = n - 1],
                    set)]

(* SELECT * FROM requests ORDER BY timestamp DESC: every row once, in an   *)
(* order the sort key allows (rows of equal timestamp in either order).    *)
(* variant: ORDER BY timestamp ASC *)
InOrderAscending(a, b) == TimestampValue(a.timestamp) <= TimestampValue(b.timestamp)

InOrder(a, b) == TimestampValue(a.timestamp) >= TimestampValue(b.timestamp)

TablePermutations(n) ==
  {p \in [1..n -> 1..n] : \A i, j \in 1..n : i # j => p[i] # p[j]}

SelectOrdered(table) ==
  {[i \in 1..Len(table) |-> table[p[i]]] : p \in
     {q \in TablePermutations(Len(table)) :
        \A i \in 1..(Len(table) - 1) : InOrder(table[q[i]], table[q[i + 1]])}}

(* ------------------------- reply formatting ---------------------------- *)
FormatCreated(row) ==
  [id        |-> parseInt(BigintText(row.id)),
   userId    |-> row.user_id,
   userName  |-> row.user_name,
   userPhone |-> row.user_phone,
   vehicle   |-> row.vehicle,
   location  |-> row.location,
   status    |-> row.status,
   timestamp |-> row.timestamp]

FormatRow(row) ==
  [id              |-> parseInt(BigintText(row.id)),
   userId          |-> row.user_id,
   userName        |-> row.user_name,
   userPhone       |-> row.user_phone,
   vehicle         |-> row.vehicle,
   location        |-> row.location,
   status          |-> row.status,
   timestamp       |-> row.timestamp,
   valetId         |-> row.valet_id,
   valetName       |-> row.valet_name,
   parkedTimestamp |-> row.parked_timestamp,
   exitTimestamp   |-> row.exit_timestamp,
   spotId          |-> row.spot_id]

Reply(status, error, rows) == [status |-> status, error |-> error, rows |-> rows]

(* ------------------------------ state ---------------------------------- *)
Init ==
  /\ requests = <<>>
  /\ clock = 1
  /\ pc = [h \in Handlers |-> "idle"]
  /\ req = [h \in Handlers |-> NoRequest]
  /\ stmt = [h \in Handlers |-> NoStatement]
  /\ res = [h \in Handlers |-> NoResponse]
  /\ before = [h \in Handlers |-> <<>>]
  /\ since = [h \in Handlers |-> 0]

(* time passes between handler steps; Date.now() reads clock *)
Tick ==
  /\ clock < MaxClock
  /\ clock' = clock + 1
  /\ UNCHANGED <<requests, pc, req, stmt, res, before, since>>

(* one more INSERT or UPDATE has run since each PATCH was received *)
Counted ==
  [g \in Handlers |->
     IF req[g].method = "PATCH" /\ since[g] < MaxSince THEN since[g] + 1 ELSE since[g]]

PendingInserts == Cardinality({h \in Handlers : stmt[h].kind = "INSERT"})

(* app.post('/api/requests'), up to the await *)
PostReceive(h, body) ==
  /\ pc[h] = "idle"
  /\ Len(requests) + PendingInserts < MaxRows
  /\ pc' = [pc EXCEPT ![h] = "query"]
  /\ req' = [req EXCEPT ![h] = [method |-> "POST", id |-> 0, body |-> body]]
  /\ stmt' = [stmt EXCEPT ![h] =
                [kind |-> "INSERT", id |-> 0, cols |-> InsertValues(body, clock)]]
  /\ res' = [res EXCEPT ![h] = NoResponse]
  /\ before' = [before EXCEPT ![h] = <<>>]
  /\ since' = [since EXCEPT ![h] = 0]
  /\ UNCHANGED <<requests, clock>>

(* the INSERT runs in the store and the handler replies *)
PostExec(h) ==
  /\ pc[h] = "query"
  /\ stmt[h].kind = "INSERT"
  /\ IF InsertRejected(requests, stmt[h].cols)
     THEN /\ requests' = requests
          /\ res' = [res EXCEPT ![h] = Reply(500, "Failed to create request", <<>>)]
     ELSE /\ requests' = InsertRow(requests, stmt[h].cols)
          /\ res' = [res EXCEPT ![h] =
                       Reply(200, "", <<FormatCreated(NewRow(stmt[h].cols))>>)]
  /\ pc' = [pc EXCEPT ![h] = "idle"]
  /\ stmt' = [stmt EXCEPT ![h] = NoStatement]
  /\ since' = Counted
  /\ UNCHANGED <<clock, req, before>>

(* app.get('/api/requests'), up to the await *)
GetReceive(h) ==
  /\ pc[h] = "idle"
  /\ pc' = [pc EXCEPT ![h] = "query"]
  /\ req' = [req EXCEPT ![h] = [method |-> "GET", id |-> 0, body |-> EmptyBody]]
  /\ stmt' = [stmt EXCEPT ![h] = [kind |-> "SELECT", id |-> 0, cols |-> EmptyBody]]
  /\ res' = [res EXCEPT ![h] = NoResponse]
  /\ before' = [before EXCEPT ![h] = <<>>]
  /\ since' = [since EXCEPT ![h] = 0]
  /\ UNCHANGED <<requests, clock>>

GetExec(h) ==
  /\ pc[h] = "query"
  /\ stmt[h].kind = "SELECT"
  /\ \E rows \in SelectOrdered(requests) :
       res' = [res EXCEPT ![h] =
                 Reply(200, "", [i \in 1..Len(rows) |-> FormatRow(rows[i])])]
  /\ pc' = [pc EXCEPT ![h] = "idle"]
  /\ stmt' = [stmt EXCEPT ![h] = NoStatement]
  /\ UNCHANGED <<requests, clock, req, before, since>>

(* app.patch('/api/requests/:id'), up to the await or the early return *)
PatchReceive(h, id, updates) ==
  /\ pc[h] = "idle"
  /\ req' = [req EXCEPT ![h] = [method |-> "PATCH", id |-> id, body |-> updates]]
  /\ IF DOMAIN SetClauses(updates) = {}
     THEN /\ res' = [res EXCEPT ![h] = Reply(400, "No valid fields to update", <<>>)]
          /\ UNCHANGED <<pc, stmt>>
     ELSE /\ pc' = [pc EXCEPT ![h] = "query"]
          /\ stmt' = [stmt EXCEPT ![h] =
                        [kind |-> "UPDATE", id |-> id, cols |-> SetClauses(updates)]]
          /\ res' = [res EXCEPT ![h] = NoResponse]
  /\ before' = [before EXCEPT ![h] = SelectSeq(requests, LAMBDA row : row.id = id)]
  /\ since' = [since EXCEPT ![h] = 0]
  /\ UNCHANGED <<requests, clock>>

PatchExec(h) ==
  /\ pc[h] = "query"
  /\ stmt[h].kind = "UPDATE"
  /\ IF UpdateRejected(stmt[h].cols)
     THEN /\ requests' = requests
          /\ res' = [res EXCEPT ![h] = Reply(500, "Failed to update request", <<>>)]
     ELSE /\ requests' = UpdateRows(requests, stmt[h].id, stmt[h].cols)
          /\ LET returned == Returning(requests, stmt[h].id, stmt[h].cols)
             IN  res' = [res EXCEPT ![h] =
                           IF Len(returned) = 0
                           THEN Reply(404, "Request not found", <<>>)
                           ELSE Reply(200, "", <<FormatRow(returned[1])>>)]
  /\ pc' = [pc EXCEPT ![h] = "idle"]
  /\ stmt' = [stmt EXCEPT ![h] = NoStatement]
  /\ since' = Counted
  /\ UNCHANGED <<clock, req, before>>

(* ------------------------------ inputs --------------------------------- *)
(* what a POST body may hold under each key: the falsy 0 and "" included   *)
PostValues ==
  [id              |-> {0, 1, 2},
   userId          |-> {"", "42"},
   userName        |-> {"", "Asha"},
   userPhone       |-> {"", "555"},
   vehicle         |-> {"{plate:KA01}"},
   location        |-> {"", "Lot A"},
   status          |-> {"", "parked"},
   timestamp       |-> {"", toISOString(1)},
   valetId         |-> {"7"},
   valetName       |-> {"Bob"},
   parkedTimestamp |-> {toISOString(1)},
   exitTimestamp   |-> {toISOString(2)},
   spotId          |-> {"12"}]

(* what a PATCH body may hold: the six mapped keys, a request field that  *)
(* is not mapped, and a key every object inherits                          *)
PatchValues ==
  [status          |-> {"parked"},
   valetId         |-> {"7"},
   valetName       |-> {"Bob"},
   parkedTimestamp |-> {toISOString(1)},
   exitTimestamp   |-> {toISOString(2)},
   spotId          |-> {"12"},
   userId          |-> {"42"},
   constructor     |-> {"x"}]

RaceValues == [status |-> {"parked", "completed"}, valetId |-> {"7", "8"}]

RECURSIVE BodiesOver(_, _)
BodiesOver(keys, values) ==
  IF keys = {} THEN {EmptyBody}
  ELSE LET key == CHOOSE k \in keys : TRUE
       IN  {b @@ (key :> v) : b \in BodiesOver(keys \ {key}, values), v \in values[key]}

BodiesUpTo(n, values) ==
  UNION {BodiesOver(keys, values) :
           keys \in {K \in SUBSET DOMAIN values : Cardinality(K) <= n}}

(* bodies of the create scenarios: nothing, any one field, and pairs *)
CreateBodies ==
  BodiesUpTo(1, PostValues)
    \cup BodiesOver({"userId", "location"}, PostValues)
    \cup BodiesOver({"id", "status"}, PostValues)

SeedBodies == {[id |-> 1], [id |-> 2]}

UpdateBodies == BodiesUpTo(MaxPatchKeys, PatchValues)

RaceBodies == BodiesUpTo(2, RaceValues) \ {EmptyBody}

PlainPostBodies == {EmptyBody, [id |-> 1]}

PlainPatchBodies ==
  {[status |-> "parked"], [userId |-> "42"], [status |-> "parked", constructor |-> "x"]}

(* --------------------------- specifications ---------------------------- *)
(* every operation, two handlers in flight at once *)
Next ==
  \/ Tick
  \/ \E h \in Handlers :
       \/ \E body \in PlainPostBodies : PostReceive(h, body)
       \/ PostExec(h)
       \/ GetReceive(h)
       \/ GetExec(h)
       \/ \E id \in {1, 2}, updates \in PlainPatchBodies : PatchReceive(h, id, updates)
       \/ PatchExec(h)

Spec == Init /\ [][Next]_vars

(* create with every field *)
NextCreate ==
  \/ Tick
  \/ \E body \in CreateBodies :
       PostReceive("h1", body)
  \/ PostExec("h1")

SpecCreate == Init /\ [][NextCreate]_vars

(* update with every key on request 1; request 3 is never created *)
NextUpdate ==
  \/ \E body \in SeedBodies : PostReceive("h1", body)
  \/ PostExec("h1")
  \/ \E id \in {1, 3}, updates \in UpdateBodies : PatchReceive("h1", id, updates)
  \/ PatchExec("h1")

SpecUpdate == Init /\ [][NextUpdate]_vars

(* two updates of request 1 in flight at once *)
NextRace ==
  \/ PostReceive("h1", [id |-> 1])
  \/ PostExec("h1")
  \/ \E h \in Handlers, updates \in RaceBodies : PatchReceive(h, 1, updates)
  \/ \E h \in Handlers : PatchExec(h)

SpecRace == Init /\ [][NextRace]_vars

(* ============================ properties =============================== *)
(* The vocabulary of the properties, stated without the handlers'          *)
(* operators.                                                              *)
AllowList ==
  {"status", "valetId", "valetName", "parkedTimestamp", "exitTimestamp", "spotId"}

ColumnOfField ==
  [id              |-> "id",
   userId          |-> "user_id",
   userName        |-> "user_name",
   userPhone       |-> "user_phone",
   vehicle         |-> "vehicle",
   location        |-> "location",
   status          |-> "status",
   timestamp       |-> "timestamp",
   valetId         |-> "valet_id",
   valetName       |-> "valet_name",
   parkedTimestamp |-> "parked_timestamp",
   exitTimestamp   |-> "exit_timestamp",
   spotId          |-> "spot_id"]

CreationColumns ==
  {"id", "user_id", "user_name", "user_phone", "vehicle", "location", "timestamp"}

StoredIds == {requests[i].id : i \in 1..Len(requests)}

StoredRow(id) == requests[CHOOSE i \in 1..Len(requests) : requests[i].id = id]

Answered(h, method) == pc[h] = "idle" /\ req[h].method = method /\ res[h].status # 0

(* the step in which handler h's statement runs and h replies *)
Executes(h, method) == pc[h] = "query" /\ req[h].method = method /\ pc'[h] = "idle"

NamedColumns(body) == {ColumnOfField[key] : key \in DOMAIN body \cap AllowList}

(* ------------------------------- C1 ------------------------------------ *)
(* C1: a PATCH whose body holds no allow-listed key, whatever its other    *)
(* keys are named, is answered 400 'No valid fields to update' without a   *)
(* statement being sent to the store.                                      *)
C1_NoAllowListedKeyIsRejected ==
  \A h \in Handlers :
    (req[h].method = "PATCH" /\ DOMAIN req[h].body \cap AllowList = {})
      => /\ pc[h] = "idle"
         /\ res[h] = [status |-> 400, error |-> "No valid fields to update", rows |-> <<>>]

(* ------------------------------- C3 ------------------------------------ *)
(* C3: a PATCH answered 200 sets, on the row with its id, exactly the      *)
(* columns its allow-listed keys name, to the values given, and leaves     *)
(* that row's other columns and every other row as they were; so a body    *)
(* of `status` alone changes `status` alone.                               *)
C3_PatchChangesOnlyNamedColumns ==
  [][\A h \in Handlers :
       (Executes(h, "PATCH") /\ res'[h].status = 200)
         => /\ Len(requests') = Len(requests)
            /\ \A i \in 1..Len(requests) :
                 IF requests[i].id = req[h].id
                 THEN /\ \A key \in DOMAIN req[h].body \cap AllowList :
                           requests'[i][ColumnOfField[key]] = req[h].body[key]
                      /\ \A c \in Columns \ NamedColumns(req[h].body) :
                           requests'[i][c] = requests[i][c]
                 ELSE requests'[i] = requests[i]]_vars

(* request 1 was PATCHed with `status` alone next to another request *)
C3_Witness ==
  /\ Answered("h1", "PATCH")
  /\ req["h1"].body = [status |-> "parked"]
  /\ res["h1"].status = 200
  /\ Len(before["h1"]) = 1
  /\ before["h1"][1].status = "requested"
  /\ before["h1"][1].valet_id = "7"
  /\ StoredRow(1).status = "parked"
  /\ StoredRow(1).valet_id = "7"
  /\ 2 \in StoredIds

(* ------------------------------- C4 ------------------------------------ *)
(* C4: a PATCH with at least one allow-listed key whose id matches no      *)
(* stored request is answered 404 'Request not found'.                     *)
C4_MissingIdIsNotFound ==
  \A h \in Handlers :
    (/\ Answered(h, "PATCH")
     /\ DOMAIN req[h].body \cap AllowList # {}
     /\ req[h].id \notin StoredIds)
      => res[h] = [status |-> 404, error |-> "Request not found", rows |-> <<>>]

(* ------------------------------- C6 ------------------------------------ *)
(* C6: whatever the stored request holds, a PATCH of it whose body is a    *)
(* non-empty combination of allow-listed fields is answered 200.           *)
C6_UpdateIsUnguarded ==
  [][\A h \in Handlers :
       (/\ Executes(h, "PATCH")
        /\ DOMAIN req[h].body # {}
        /\ DOMAIN req[h].body \subseteq AllowList
        /\ req[h].id \in StoredIds)
         => res'[h].status = 200]_vars

(* exitTimestamp and spotId written to a request already marked parked     *)
(* that was never parked by a valet                                        *)
C6_Witness ==
  /\ Answered("h1", "PATCH")
  /\ req["h1"].body = [exitTimestamp |-> toISOString(2), spotId |-> "12"]
  /\ res["h1"].status = 200
  /\ Len(before["h1"]) = 1
  /\ before["h1"][1].status = "parked"
  /\ StoredRow(1).exit_timestamp = toISOString(2)
  /\ StoredRow(1).spot_id = "12"
  /\ StoredRow(1).parked_timestamp = NULL
  /\ StoredRow(1).valet_id = NULL

(* ------------------------------- C2 ------------------------------------ *)
(* C2: a create answered 200 stores and returns a request whose identifier *)
(* is the body's when the body carries one, and a generated one greater    *)
(* than zero otherwise.                                                    *)
C2_IdentifierGeneratedOrPreserved ==
  \A h \in Handlers :
    (Answered(h, "POST") /\ res[h].status = 200)
      => /\ res[h].rows[1].id \in StoredIds
         /\ IF "id" \in DOMAIN req[h].body
            THEN res[h].rows[1].id = req[h].body.id
            ELSE res[h].rows[1].id > 0

(* ------------------------------- C9 ------------------------------------ *)
CreateDefaults ==
  [userId    |-> "999",
   userName  |-> "Unknown",
   userPhone |-> "",
   vehicle   |-> "{}",
   location  |-> "",
   status    |-> "requested"]

CurrentTimes == {toISOString(n) : n \in 1..clock}

ReturnedAsStored(reply, row) ==
  \A field \in DOMAIN CreateDefaults \cup {"id", "timestamp"} :
    reply[field] = row[ColumnOfField[field]]

NeverAssigned(row) ==
  \A c \in {"valet_id", "valet_name", "parked_timestamp", "exit_timestamp", "spot_id"} :
    row[c] = NULL

(* C9 as stated: a create answered 200 stores and returns, for each field, *)
(* the body's value when the body has the field and the default when it    *)
(* has not; the valet, parking and exit columns are unset.                 *)
C9_PresentFieldsStoredAsSupplied ==
  \A h \in Handlers :
    (Answered(h, "POST") /\ res[h].status = 200)
      => LET body == req[h].body
             row == StoredRow(res[h].rows[1].id)
         IN  /\ \A field \in DOMAIN CreateDefaults :
                  row[ColumnOfField[field]] =
                    IF field \in DOMAIN body THEN body[field] ELSE CreateDefaults[field]
             /\ IF "timestamp" \in DOMAIN body
                THEN row.timestamp = body.timestamp
                ELSE row.timestamp \in CurrentTimes
             /\ NeverAssigned(row)
             /\ ReturnedAsStored(res[h].rows[1], row)

(* C9 amended: the body's value is stored when the body has the field with *)
(* a non-empty value; a field that is absent or empty takes its default    *)
(* (timestamp: the current time); the valet, parking and exit columns are  *)
(* unset even when the body supplies them; the reply shows what is stored. *)
C9_NonEmptyFieldsStoredAsSupplied ==
  \A h \in Handlers :
    (Answered(h, "POST") /\ res[h].status = 200)
      => LET body == req[h].body
             row == StoredRow(res[h].rows[1].id)
             Given(field) == field \in DOMAIN body /\ body[field] # ""
         IN  /\ \A field \in DOMAIN CreateDefaults :
                  row[ColumnOfField[field]] =
                    IF Given(field) THEN body[field] ELSE CreateDefaults[field]
             /\ IF Given("timestamp")
                THEN row.timestamp = body.timestamp
                ELSE row.timestamp \in CurrentTimes
             /\ NeverAssigned(row)
             /\ ReturnedAsStored(res[h].rows[1], row)

(* a second create, with an identifier and an empty status *)
C9_Witness ==
  /\ Answered("h1", "POST")
  /\ res["h1"].status = 200
  /\ req["h1"].body = [id |-> 2, status |-> ""]
  /\ res["h1"].rows[1].id = 2
  /\ res["h1"].rows[1].userName = "Unknown"
  /\ res["h1"].rows[1].status = "requested"
  /\ StoredRow(2).valet_id = NULL
  /\ Len(requests) = 2

(* ------------------------------- C5 ------------------------------------ *)
(* C5: a create whose identifier, supplied or generated from the clock, is *)
(* that of a stored request is answered 500 'Failed to create request'     *)
(* and changes no row; no two stored requests ever share an identifier.    *)
C5_DuplicateIdentifierIsRejected ==
  [][/\ \A i, j \in 1..Len(requests') : i # j => requests'[i].id # requests'[j].id
     /\ \A h \in Handlers :
          (Executes(h, "POST") /\ stmt[h].cols.id \in StoredIds)
            => /\ res'[h] =
                    [status |-> 500, error |-> "Failed to create request", rows |-> <<>>]
               /\ requests' = requests]_vars

(* two creates without identifier read the same clock value: the second    *)
(* is refused and the first one's row stands                               *)
C5_Witness ==
  /\ Answered("h1", "POST") /\ Answered("h2", "POST")
  /\ req["h1"].body = EmptyBody /\ req["h2"].body = EmptyBody
  /\ res["h1"].status = 200
  /\ res["h2"].status = 500
  /\ Len(requests) = 1
  /\ requests[1].id = res["h1"].rows[1].id

(* ------------------------------- C7 ------------------------------------ *)
External(row) ==
  [field \in DOMAIN ColumnOfField |-> row[ColumnOfField[field]]]

(* C7: the list holds every stored request exactly once, a later timestamp *)
(* before an earlier one.                                                  *)
C7_ListIsCompleteAndNewestFirst ==
  [][\A h \in Handlers :
       Executes(h, "GET")
         => LET rows == res'[h].rows
            IN  /\ res'[h].status = 200
                /\ Len(rows) = Len(requests)
                /\ \A i \in 1..Len(requests) :
                     Cardinality({n \in 1..Len(rows) : rows[n] = External(requests[i])}) = 1
                /\ \A m, n \in 1..Len(rows) :
                     m < n => TimestampValue(rows[m].timestamp)
                                >= TimestampValue(rows[n].timestamp)]_vars

(* two creates, then a list: the request created second, at a later time,  *)
(* comes first                                                             *)
C7_Witness ==
  /\ Answered("h1", "GET")
  /\ Len(requests) = 2
  /\ Len(res["h1"].rows) = 2
  /\ TimestampValue(requests[1].timestamp) < TimestampValue(requests[2].timestamp)
  /\ res["h1"].rows[1].id = requests[2].id
  /\ res["h1"].rows[2].id = requests[1].id

(* ------------------------------- C10 ----------------------------------- *)
(* C10: no step removes a stored request or changes its id, userId,        *)
(* userName, userPhone, vehicle, location or timestamp.                    *)
C10_CreationFieldsAreImmutable ==
  [][\A i \in 1..Len(requests) :
       \E j \in 1..Len(requests') :
         \A c \in CreationColumns : requests'[j][c] = requests[i][c]]_vars

(* a request was updated, and updates naming userId or an inherited key    *)
(* were answered, and it keeps what it was created with                    *)
C10_Witness ==
  /\ Len(requests) = 2
  /\ requests[1].status = "parked"
  /\ requests[1].user_id = "999"
  /\ Answered("h1", "PATCH") /\ req["h1"].body = [userId |-> "42"] /\ req["h1"].id = 1
  /\ Answered("h2", "PATCH") /\ res["h2"].status = 500 /\ req["h2"].id = 1

(* ------------------------------- C8 ------------------------------------ *)
Overwrite(row, body) ==
  [c \in DOMAIN row |->
     IF c \in NamedColumns(body)
     THEN body[CHOOSE key \in DOMAIN body \cap AllowList : ColumnOfField[key] = c]
     ELSE row[c]]

(* the updates handlers h and g answered last were in flight together, and *)
(* theirs are the only two statements run since either was received       *)
RaceOver(h, g) ==
  /\ Answered(h, "PATCH") /\ res[h].status = 200
  /\ Answered(g, "PATCH") /\ res[g].status = 200
  /\ req[h].id = req[g].id
  /\ since[h] = 2 /\ since[g] = 2

(* C8: once two concurrent updates of one request are both answered, the   *)
(* row is what the two updates, each applied whole to the row they were    *)
(* received against, give in one of the two orders.                        *)
C8_ConcurrentUpdatesSerialize ==
  RaceOver("h1", "h2")
    => LET prior == before["h1"][1]
           first == req["h1"].body
           second == req["h2"].body
       IN  /\ before["h2"] = before["h1"]
           /\ StoredRow(req["h1"].id) \in
                {Overwrite(Overwrite(prior, first), second),
                 Overwrite(Overwrite(prior, second), first)}

(* both were in flight at once: each changed status, the later one wins    *)
(* it, and the valet only the earlier one named stays                      *)
C8_Witness ==
  /\ RaceOver("h1", "h2")
  /\ before["h1"][1].status = "requested"
  /\ req["h1"].body = [status |-> "parked", valetId |-> "7"]
  /\ req["h2"].body = [status |-> "completed"]
  /\ StoredRow(1).status = "completed"
  /\ StoredRow(1).valet_id = "7"

====
